---- MODULE Spec2Model ----
(***************************************************************************)
(* Rate-limit admission control of the FastAPI template:                   *)
(*   app/utils/rate_limiter.py   user_rate_limiter, ip_rate_limiter        *)
(*   app/observability/metrics.py  record_ratelimit_decision/_degraded     *)
(* A check is a coroutine with one suspension point (await evalsha): it    *)
(* is Call (entry up to the await), Evalsha (the store runs the script     *)
(* atomically, or the call fails) and Resume (the code after the await).   *)
(* Spec runs checks one at a time, each as one step (Check), against a     *)
(* store that honours its contract while time passes; SpecFault adds the   *)
(* failures of the store and of the metrics sink; SpecIso runs the checks  *)
(* of every caller within one window; SpecBurst interleaves the three      *)
(* steps of times + 5 concurrent checks of one key.                        *)
(* The counting store is an external collaborator; its script follows the  *)
(* contract the specification gives for it.                                *)
(*                                                                         *)
(* The application above the limiter:                                      *)
(*   app/user/*   register, login and the functions under them (SpecAuth)  *)
(*   app/todo/*, app/utils/auth_dependency.py   the todo routes entered    *)
(*                through get_current_user, and the todo functions called  *)
(*                directly (SpecTodo)                                      *)
(* SpecKey builds the limiter's keys for identities and service tags that  *)
(* contain the separator.  A route is one step: its admission check, its   *)
(* try body, its except clauses and the rendering of what it raised.       *)
(*                                                                         *)
(* The server around the routes:                                           *)
(*   app/main.py   lifespan; app/health/health_router.py   status_check;   *)
(*   app/observability/middleware.py, metrics.py   the in-flight gauge     *)
(*                (SpecServer)                                             *)
(* SpecAuthFault serves the user routes against a failing store and with   *)
(* cancelled requests; SpecTodoBody runs the todo route functions with a   *)
(* resolved User; SpecUpdate runs updates of every shape; SpecWindow logs  *)
(* the admissions of one key while time passes; SpecRace interleaves two   *)
(* register requests at their awaits.                                      *)
(***************************************************************************)
EXTENDS Integers, Sequences, FiniteSets, Bags, TLC

VARIABLES redis, seconds, store, tasks, metrics_initialized, lapsed,
          users, todos, response, built,
          lifespan, in_flight, dispatches, history, registrations

vars == <<redis, seconds, store, tasks, metrics_initialized, lapsed,
          users, todos, response, built,
          lifespan, in_flight, dispatches, history, registrations>>

\* the limiter's side of the state, and the application's
limiterVars == <<redis, seconds, store, tasks, metrics_initialized, lapsed>>

appVars == <<users, todos, response, built>>

\* the server around the routes: the lifespan of the application, the
\* in-flight gauge, the requests inside MetricsMiddleware.dispatch, the
\* requests of the running window as an observer of the server logs them,
\* and the register requests that are suspended at an await
serverVars == <<lifespan, in_flight, dispatches, history, registrations>>

----------------------------------------------------------------------------
(* Bounds *)

\* largest limit (times) a caller passes
MaxTimes == 2
\* largest window (seconds) the checks run with
MaxSeconds == 2
\* a check is issued for a key only while its counter is below this
MaxCount == 3
\* granularity of the clock, in milliseconds
TickMs == 500

----------------------------------------------------------------------------
(* Inputs *)

\* strings are sequences of tokens; ":" is the separator the key uses
Sep == <<":">>

Prefix == <<"fastapi-limiter">>

SERVICE == <<"todo">>

AUTH_LOGIN == <<"auth", ":", "login">>

\* the argument that carries the identity: a user_id for user_rate_limiter,
\* a request (client host, or no client) for ip_rate_limiter
NoClient == <<>>

UserCalls == {[kind |-> "user", arg |-> <<"u1">>, service |-> SERVICE],
              [kind |-> "user", arg |-> <<"u1">>, service |-> AUTH_LOGIN]}

IpCalls == {[kind |-> "ip", arg |-> <<"u1">>, service |-> SERVICE],
            [kind |-> "ip", arg |-> NoClient, service |-> SERVICE]}

Calls == UserCalls \cup IpCalls

\* the callers of the specifications in which time passes
TimedCalls == {[kind |-> "user", arg |-> <<"u1">>, service |-> SERVICE],
               [kind |-> "ip", arg |-> NoClient, service |-> SERVICE]}

----------------------------------------------------------------------------
(* Key construction *)

\* client_ip = request.client.host if request.client else "unknown"
ClientIp(arg) == IF arg = NoClient THEN <<"unknown">> ELSE arg

Identity(kind, arg) == IF kind = "ip" THEN ClientIp(arg) ELSE arg

\* a key that leaves the kind out
KeyNoKind(kind, identity, service) ==
    Prefix \o Sep \o identity \o Sep \o service

\* f"{FastAPILimiter.prefix}:user:{user_id}:{service}"
\* f"{FastAPILimiter.prefix}:ip:{client_ip}:{service}"
Key(kind, identity, service) ==
    Prefix \o Sep \o <<kind>> \o Sep \o identity \o Sep \o service

StoreKeys == {Key(c.kind, Identity(c.kind, c.arg), c.service) : c \in Calls}

----------------------------------------------------------------------------
(* Counting store *)

Absent == [count |-> 0, ttl |-> 0]

Live(st) == {k \in DOMAIN st : st[k].count > 0}

\* the atomic script: increment; the first increment of a window sets the
\* expiry; reply the remaining ttl when the counter exceeds the limit, else 0
ScriptState(st, key, limit, window_ms) ==
    LET cur == st[key]
    IN [st EXCEPT ![key] = [count |-> cur.count + 1,
                            ttl |-> IF cur.count = 0 THEN window_ms ELSE cur.ttl]]

ScriptReply(st, key, limit, window_ms) ==
    LET s2 == ScriptState(st, key, limit, window_ms)
    IN IF s2[key].count > limit THEN s2[key].ttl ELSE 0

\* time passes: every live key loses TickMs of ttl, a key at 0 is removed
Expired(st) == {k \in Live(st) : st[k].ttl <= TickMs}

Aged(st) ==
    [k \in DOMAIN st |->
        IF k \in Expired(st) THEN Absent
        ELSE IF k \in Live(st) THEN [st[k] EXCEPT !.ttl = @ - TickMs]
        ELSE st[k]]

----------------------------------------------------------------------------
(* Metrics *)

\* _safe_add without its try/except
SafeAddUnguarded(initialized, addRaises, event) ==
    IF ~initialized THEN [events |-> <<>>, raised |-> FALSE]
    ELSE IF addRaises THEN [events |-> <<>>, raised |-> TRUE]
    ELSE [events |-> <<event>>, raised |-> FALSE]

\* _safe_add(counter, 1, labels): nothing when the instrument is None;
\* an exception of counter.add is caught and dropped
SafeAdd(initialized, addRaises, event) ==
    IF ~initialized THEN [events |-> <<>>, raised |-> FALSE]
    ELSE IF addRaises THEN [events |-> <<>>, raised |-> FALSE]
    ELSE [events |-> <<event>>, raised |-> FALSE]

\* record_ratelimit_decision(allowed, service): the counter it adds to
RecordDecisionCounter(allowed) == IF allowed THEN "allowed" ELSE "rejected"

\* the fail-open path counted as an ordinary admission
RecordDegradedCounterAllowed == "allowed"

\* record_ratelimit_degraded(service): the counter it adds to
RecordDegradedCounter == "degraded"

\* labels = {"service": service, "env": _get_env()}
RecordEvent(counter, service) == [counter |-> counter, service |-> service]

----------------------------------------------------------------------------
(* Tasks: one record per check *)

NoReply == [tag |-> "none", v |-> 0]

NoKey == <<>>

Idle == [pc |-> "idle", kind |-> "", identity |-> <<>>, service |-> <<>>,
         times |-> 0, seconds |-> 0, milliseconds |-> 0, key |-> NoKey,
         reply |-> NoReply, ordinal |-> 0, fresh |-> FALSE,
         outcome |-> "", exc |-> "", pexpire |-> 0, retry |-> 0,
         calls |-> <<>>, events |-> <<>>, addRaised |-> FALSE, evals |-> 0]

\* floor instead of ceil
FloorDiv(a, b) == a \div b

\* ceil(pexpire / 1000)
CeilDiv(a, b) == -((-a) \div b)

\* the window handed on in seconds where milliseconds are due
EnteredWindowInSeconds(c, times, secs) ==
    LET identity == Identity(c.kind, c.arg)
    IN [Idle EXCEPT !.kind = c.kind, !.identity = identity,
                    !.service = c.service, !.times = times,
                    !.seconds = secs, !.milliseconds = secs,
                    !.key = Key(c.kind, identity, c.service)]

\* the arguments of the call: key, limit, window
Entered(c, times, secs) ==
    LET identity == Identity(c.kind, c.arg)
    IN [Idle EXCEPT !.kind = c.kind, !.identity = identity,
                    !.service = c.service, !.times = times,
                    !.seconds = secs, !.milliseconds = secs * 1000,
                    !.key = Key(c.kind, identity, c.service)]

\* the entry without the test for a missing store
CallStepNoGuard(t, r) == [t EXCEPT !.pc = "sent", !.evals = 1]

\* up to the await: return at once when FastAPILimiter.redis is None,
\* else issue evalsha
CallStep(t, r) ==
    IF r = "none"
    THEN [t EXCEPT !.pc = "done", !.outcome = "admit"]
    ELSE [t EXCEPT !.pc = "sent", !.evals = 1]

\* the limit and the window in each other's place
EvalshaArgsSwapped(t) == [key |-> t.key, limit |-> t.milliseconds, window_ms |-> t.times]

\* a limit one too high
EvalshaArgsLimitAbove(t) == [key |-> t.key, limit |-> t.times + 1, window_ms |-> t.milliseconds]

\* a limit one too low
EvalshaArgsLimitBelow(t) == [key |-> t.key, limit |-> t.times - 1, window_ms |-> t.milliseconds]

\* evalsha(lua_sha, 1, key, str(times), str(milliseconds))
EvalshaArgs(t) == [key |-> t.key, limit |-> t.times, window_ms |-> t.milliseconds]

\* what a round trip can do: "ok" runs the script and replies its integer,
\* "raise" fails before the script runs, "nil" and "junk" run the script
\* and reply out of protocol
NominalModes == {"ok"}

FaultModes == {"ok", "raise", "nil", "junk"}

EvalStore(st, t, mode) ==
    LET a == EvalshaArgs(t)
    IN IF mode = "raise" THEN st
       ELSE ScriptState(st, a.key, a.limit, a.window_ms)

EvalTask(st, t, mode, lapsedKey) ==
    LET a == EvalshaArgs(t)
    IN IF mode = "raise"
       THEN [t EXCEPT !.pc = "replied", !.reply = [tag |-> "raise", v |-> 0]]
       ELSE [t EXCEPT !.pc = "replied",
                      !.reply = IF mode = "ok"
                                THEN [tag |-> "int",
                                      v |-> ScriptReply(st, a.key, a.limit, a.window_ms)]
                                ELSE [tag |-> mode, v |-> 0],
                      !.ordinal = st[a.key].count + 1,
                      !.fresh = (a.key = lapsedKey)]

\* a record call made by the check: the exception it lets through, if any,
\* ends the check
Recorded(t, counter, initialized, addRaises, outcome) ==
    LET e == RecordEvent(counter, t.service)
        r == SafeAdd(initialized, addRaises, e)
    IN [t EXCEPT !.pc = "done",
                 !.calls = <<e>>,
                 !.events = r.events,
                 !.addRaised = initialized /\ addRaises,
                 !.outcome = IF r.raised THEN "raise" ELSE outcome,
                 !.exc = IF r.raised THEN "MetricsError" ELSE ""]

\* the code after the await
Resumed(t, initialized, addRaises) ==
    IF t.reply.tag = "raise"
    THEN \* except Exception: pexpire = 0; record_ratelimit_degraded(service)
         Recorded([t EXCEPT !.pexpire = 0],
                  RecordDegradedCounter, initialized, addRaises, "admit")
    ELSE IF t.reply.tag = "int"
    THEN IF t.reply.v # 0
         THEN \* expire_seconds = ceil(pexpire / 1000); record; raise 429
              Recorded([t EXCEPT !.pexpire = t.reply.v,
                                 !.retry = CeilDiv(t.reply.v, 1000)],
                       RecordDecisionCounter(FALSE), initialized, addRaises, "reject")
         ELSE Recorded([t EXCEPT !.pexpire = 0],
                       RecordDecisionCounter(TRUE), initialized, addRaises, "admit")
    ELSE \* None != 0 and "junk" != 0 hold; ceil(pexpire / 1000) raises TypeError
         [t EXCEPT !.pc = "done", !.outcome = "raise", !.exc = "TypeError"]

\* tasks is the bag of the checks' frames
One(t) == SetToBag({t})

Replaced(ts, t, t2) == (ts (-) One(t)) (+) One(t2)

\* a returned check's frame is gone once anything else happens
ReapedTask(t) == IF t.pc = "done" THEN Idle ELSE t

Reaped(ts) == BagOfAll(ReapedTask, ts)

\* the model issues a check only while the key's counter is within its bound
WithinBounds(t) == store[t.key].count < MaxCount

----------------------------------------------------------------------------
(* Application values *)

\* Python's None
None == [type |-> "None"]

\* fastapi.HTTPException(status_code, detail); n is the number a detail
\* text carries, if any
Detail(text, n) == [text |-> text, n |-> n]

HTTPException(status_code, detail) ==
    [type |-> "HTTPException", status_code |-> status_code, detail |-> detail]

\* any other exception, by its class
Error(class) == [type |-> class, status_code |-> 0, detail |-> Detail("", 0)]

\* how a try body ends: it returns a success body, or raises
Returned(status_code, message, data) ==
    [raised |-> FALSE, exc |-> None, status_code |-> status_code,
     message |-> message, data |-> data]

Raised(e) ==
    [raised |-> TRUE, exc |-> e, status_code |-> 0, message |-> "", data |-> None]

\* except Exception as e: raise HTTPException(500, detail) from e
\* with no clause for HTTPException before it
ExceptException(r, detail) ==
    IF r.raised THEN Raised(HTTPException(500, Detail(detail, 0))) ELSE r

\* except HTTPException: raise
\* except Exception as e: raise HTTPException(500, detail) from e
ExceptHTTPExceptionThenException(r, detail) ==
    IF r.raised /\ r.exc.type # "HTTPException"
    THEN Raised(HTTPException(500, Detail(detail, 0)))
    ELSE r

\* the reply the client gets: the route's declared status_code with the
\* returned body, or http_exception_handler's rendering of the exception
NoResponse ==
    [route |-> "", status_code |-> 0, status |-> "", message |-> Detail("", 0),
     data |-> None, check |-> "", input |-> None]

Rendered(route, r, check, input) ==
    IF r.raised
    THEN [route |-> route, status_code |-> r.exc.status_code, status |-> "error",
          message |-> r.exc.detail, data |-> None, check |-> check, input |-> input]
    ELSE [route |-> route, status_code |-> r.status_code, status |-> "success",
          message |-> Detail(r.message, 0), data |-> r.data, check |-> check,
          input |-> input]

----------------------------------------------------------------------------
(* Users: user_model, user_crud, user_service, user_auth *)

\* uuid.uuid4() gives an identifier no row has yet: the next of a pool
UuidPool == <<"u1", "u2", "u3">>

\* pwd_context.hash / pwd_context.verify
hash_password(password) == [scheme |-> "bcrypt", of |-> password]

verify_password(plain_password, hashed_password) ==
    hashed_password = hash_password(plain_password)

\* .first() of the rows a query selects, None when there is none
First(rows) == IF rows = <<>> THEN None ELSE rows[1]

get_user_by_username(us, username) ==
    First(SelectSeq(us, LAMBDA u : u.username = username))

get_user_by_username_or_email(us, username, email) ==
    First(SelectSeq(us, LAMBDA u : u.username = username \/ u.email = email))

get_user_by_user_id(us, user_id) ==
    First(SelectSeq(us, LAMBDA u : u.user_id = user_id))

\* the users table declares user_id, username and email unique
UsersUnique(us) ==
    \A i, j \in 1..Len(us) :
        i # j => /\ us[i].user_id # us[j].user_id
                 /\ us[i].username # us[j].username
                 /\ us[i].email # us[j].email

\* create_user: add the row and commit; the table refuses a duplicate
create_user(us, username, email, hashed_password) ==
    LET user == [type |-> "User", id |-> Len(us) + 1,
                 user_id |-> <<UuidPool[Len(us) + 1]>>,
                 username |-> username, email |-> email,
                 hashed_password |-> hashed_password]
    IN IF UsersUnique(Append(us, user))
       THEN [raised |-> FALSE, exc |-> None, user |-> user, users |-> Append(us, user)]
       ELSE [raised |-> TRUE, exc |-> Error("IntegrityError"), user |-> None, users |-> us]

\* UserCreateResponse.model_validate(user): the fields the schema names
UserCreateResponse(user) ==
    [type |-> "UserCreateResponse", user_id |-> user.user_id,
     username |-> user.username, email |-> user.email]

\* register_user without the look-up of the username and the email
register_user_unchecked(us, user_create) ==
    LET c == create_user(us, user_create.username, user_create.email,
                         hash_password(user_create.password))
    IN IF c.raised
       THEN [raised |-> TRUE, exc |-> c.exc, value |-> None, users |-> us]
       ELSE [raised |-> FALSE, exc |-> None,
             value |-> UserCreateResponse(c.user), users |-> c.users]

\* register_user: None when the username or the email is taken, else the
\* created user
register_user(us, user_create) ==
    IF get_user_by_username_or_email(us, user_create.username, user_create.email) # None
    THEN [raised |-> FALSE, exc |-> None, value |-> None, users |-> us]
    ELSE LET c == create_user(us, user_create.username, user_create.email,
                              hash_password(user_create.password))
         IN IF c.raised
            THEN [raised |-> TRUE, exc |-> c.exc, value |-> None, users |-> us]
            ELSE [raised |-> FALSE, exc |-> None,
                  value |-> UserCreateResponse(c.user), users |-> c.users]

\* login_user: the user when the username exists and the password verifies
login_user(us, username, password) ==
    LET user == get_user_by_username(us, username)
    IN IF user = None THEN None
       ELSE IF user.hashed_password = None THEN None
       ELSE IF ~verify_password(password, user.hashed_password) THEN None
       ELSE user

\* jwt.encode(data + exp, SECRET_KEY): a token is its claims, the key that
\* signed it and whether its exp has passed
NoSub == <<>>

create_access_token(sub) == [sub |-> sub, key |-> "SECRET_KEY", expired |-> FALSE]

\* jwt.decode: the claims, None on PyJWTError (bad signature, expired)
decode_access_token(token) ==
    IF token.key = "SECRET_KEY" /\ ~token.expired
    THEN [type |-> "dict", sub |-> token.sub]
    ELSE None

----------------------------------------------------------------------------
(* Todos: todo_model, todo_crud, todo_service, todo_schema *)

\* optional arguments: None, or a str or a bool
Str(s) == [type |-> "str", s |-> s]

Bool(b) == [type |-> "bool", b |-> b]

\* uuid.uuid4() for a todo_id
TodoUuidPool == <<"t1", "t2", "t3", "t4", "t5">>

\* the rows of one user, in the order of their id
OfUser(ts, user_id) == SelectSeq(ts, LAMBDA r : r.user_id = user_id)

\* create_todo: add the row, commit, refresh
create_todo(ts, user_id, title, description) ==
    LET new_todo == [type |-> "Todo", id |-> Len(ts) + 1,
                     todo_id |-> TodoUuidPool[Len(ts) + 1], user_id |-> user_id,
                     title |-> title, description |-> description,
                     completed |-> FALSE, is_deleted |-> FALSE]
    IN [value |-> new_todo, todos |-> Append(ts, new_todo)]

Min(a, b) == IF a < b THEN a ELSE b

\* select(Todo).where(Todo.user_id == user_id).offset(offset).limit(page_size)
get_todos_by_page_number(ts, user_id, page_number, page_size) ==
    LET offset == (page_number - 1) * page_size
        rows == OfUser(ts, user_id)
    IN SubSeq(rows, offset + 1, Min(offset + page_size, Len(rows)))

\* select(func.count(Todo.todo_id)).where(Todo.user_id == user_id)
get_todos_total_size(ts, user_id) == Len(OfUser(ts, user_id))

get_todos_by_todo_id(ts, todo_id, user_id) ==
    First(SelectSeq(ts, LAMBDA r : r.todo_id = todo_id /\ r.user_id = user_id))

\* the row after update(Todo).values(**update_data): a field is written
\* when its argument is not None
Updated(r, title, description, completed) ==
    [r EXCEPT !.title = IF title # None THEN title.s ELSE @,
              !.description = IF description # None THEN description ELSE @,
              !.completed = IF completed # None THEN completed.b ELSE @]

\* update_todo_by_todo_id: None when the user has no such todo, else the
\* refreshed row
update_todo_by_todo_id(ts, todo_id, user_id, title, description, completed) ==
    LET todo_obj == get_todos_by_todo_id(ts, todo_id, user_id)
        after == [i \in 1..Len(ts) |->
                     IF ts[i].todo_id = todo_id /\ ts[i].user_id = user_id
                     THEN Updated(ts[i], title, description, completed)
                     ELSE ts[i]]
    IN IF todo_obj = None
       THEN [value |-> None, todos |-> ts]
       ELSE [value |-> get_todos_by_todo_id(after, todo_id, user_id), todos |-> after]

\* delete_todo_by_todo_id: soft delete of the user's row with that todo_id;
\* the function has no return statement
delete_todo_by_todo_id(ts, todo_id, user_id) ==
    [value |-> None,
     todos |-> [i \in 1..Len(ts) |->
                   IF ts[i].todo_id = todo_id /\ ts[i].user_id = user_id
                   THEN [ts[i] EXCEPT !.is_deleted = TRUE]
                   ELSE ts[i]]]

\* todo_schema.Todo.model_validate(row): the fields the schema names
TodoSchema(r) ==
    [type |-> "TodoSchema", id |-> r.id, todo_id |-> r.todo_id, user_id |-> r.user_id,
     title |-> r.title, description |-> r.description, completed |-> r.completed]

ValidatedAll(rows) == [i \in 1..Len(rows) |-> TodoSchema(rows[i])]

create_todo_service(ts, user_id, todo_data) ==
    LET c == create_todo(ts, user_id, todo_data.title, todo_data.description)
    IN [value |-> TodoSchema(c.value), todos |-> c.todos]

\* get_todos_serivce: the page and the count, under two keys
get_todos_serivce(ts, user_id, page_number, page_size) ==
    [data |-> ValidatedAll(get_todos_by_page_number(ts, user_id, page_number, page_size)),
     total_size |-> get_todos_total_size(ts, user_id)]

----------------------------------------------------------------------------
(* Routes: the admission check and the try/except of a route function *)

\* RateLimitConfig.WRITE_PER_MIN and READ_PER_MIN, scaled down
WRITE_PER_MIN == 1

READ_PER_MIN == 2

\* seconds: int = 60, the window every route leaves at its default
DefaultSeconds == 60

AUTH_REGISTER == <<"auth", ":", "register">>

\* request.client.host of the one client of the user routes
Host == <<"h1">>

RegisterCall == [kind |-> "ip", arg |-> Host, service |-> AUTH_REGISTER]

LoginCall == [kind |-> "ip", arg |-> Host, service |-> AUTH_LOGIN]

\* the users whose tokens reach the todo routes
UserIds == {<<UuidPool[1]>>, <<UuidPool[2]>>}

TodoCall(user_id) == [kind |-> "user", arg |-> user_id, service |-> SERVICE]

RouteCalls == {RegisterCall, LoginCall} \cup {TodoCall(u) : u \in UserIds}

\* await user_rate_limiter(...) / await ip_rate_limiter(...): the check as
\* it returned or raised, and the store it leaves
rate_limiter(st, c, times, mode) ==
    LET t == CallStep(Entered(c, times, seconds), redis)
    IN IF t.pc = "done" THEN t
       ELSE Resumed(EvalTask(st, t, mode, lapsed), metrics_initialized, FALSE)

\* a check that deletes the key of a request it rejects
rate_limiter_store_deleting(st, c, times, mode) ==
    LET t == CallStep(Entered(c, times, seconds), redis)
        st2 == EvalStore(st, t, mode)
    IN IF t.pc = "done" THEN st
       ELSE IF mode = "ok" /\ st2[t.key].count > times
       THEN [st2 EXCEPT ![t.key] = Absent]
       ELSE st2

rate_limiter_store(st, c, times, mode) ==
    LET t == CallStep(Entered(c, times, seconds), redis)
    IN IF t.pc = "done" THEN st ELSE EvalStore(st, t, mode)

\* raise HTTPException(429, f"Rate limit exceeded. Try again in
\* {expire_seconds} seconds.")
TooManyRequests(t) ==
    HTTPException(429, Detail("Rate limit exceeded. Try again in N seconds.", t.retry))

\* a register that stores the user before it looks at the check's verdict
register_try_before_check(us, body, t) ==
    LET user == register_user(us, body)
    IN IF t.outcome = "reject"
       THEN [result |-> Raised(TooManyRequests(t)), users |-> user.users]
       ELSE IF t.outcome = "raise"
       THEN [result |-> Raised(Error(t.exc)), users |-> user.users]
       ELSE IF user.raised
       THEN [result |-> Raised(user.exc), users |-> us]
       ELSE IF user.value = None
       THEN [result |-> Raised(HTTPException(400,
                           Detail("Username or email already exists", 0))),
             users |-> user.users]
       ELSE [result |-> Returned(201, "User registered successfully", user.value),
             users |-> user.users]

\* the try body of register
register_try(us, body, t) ==
    IF t.outcome = "reject"
    THEN [result |-> Raised(TooManyRequests(t)), users |-> us]
    ELSE IF t.outcome = "raise"
    THEN [result |-> Raised(Error(t.exc)), users |-> us]
    ELSE LET user == register_user(us, body)
         IN IF user.raised
            THEN [result |-> Raised(user.exc), users |-> us]
            ELSE IF user.value = None
            THEN [result |-> Raised(HTTPException(400,
                                Detail("Username or email already exists", 0))),
                  users |-> user.users]
            ELSE [result |-> Returned(201, "User registered successfully", user.value),
                  users |-> user.users]

\* the except clauses of register
register_except(r) == ExceptHTTPExceptionThenException(r, "Error registering user")

\* the try body of login
login_try(us, body, t) ==
    IF t.outcome = "reject"
    THEN Raised(TooManyRequests(t))
    ELSE IF t.outcome = "raise"
    THEN Raised(Error(t.exc))
    ELSE LET user == login_user(us, body.username, body.password)
         IN IF user = None
            THEN Raised(HTTPException(401, Detail("Invalid credentials", 0)))
            ELSE Returned(200, "Login successful",
                          [type |-> "dict",
                           access_token |-> create_access_token(user.user_id),
                           token_type |-> "bearer"])

\* the except clause of login
login_except(r) == ExceptException(r, "Error logging in user")

----------------------------------------------------------------------------
(* Todo routes: get_current_user and the four route functions *)

\* the object an async function returns when it is called without await
Coroutine(function, arg) == [type |-> "coroutine", of |-> function, arg |-> arg]

\* `not x` is False for every object but None (and empty containers)
Truthy(x) == x # None

\* get_current_user: a plain def; get_user_by_user_id is an async def and is
\* called without await
get_current_user(token, us) ==
    LET payload == decode_access_token(token)
    IN IF ~Truthy(payload)
       THEN Raised(HTTPException(401, Detail("Invalid or expired token", 0)))
       ELSE IF payload.sub = NoSub
       THEN Raised(HTTPException(401, Detail("Could not validate credentials", 0)))
       ELSE LET user == Coroutine("get_user_by_user_id", payload.sub)
            IN IF ~Truthy(user)
               THEN Raised(HTTPException(401, Detail("User not found", 0)))
               ELSE Returned(0, "", user)

\* how a todo route's try body ends, with the table and the store it leaves
Ended(result, ts, st, check) ==
    [result |-> result, todos |-> ts, store |-> st, check |-> check]

\* assert current_user.user_id is not None
\* await user_rate_limiter(current_user.user_id, SERVICE, times)
todo_enter(current_user, ts, st, times, mode) ==
    IF current_user.type # "User"
    THEN Ended(Raised(Error("AttributeError")), ts, st, "")
    ELSE LET c == TodoCall(current_user.user_id)
             t == rate_limiter(st, c, times, mode)
             st2 == rate_limiter_store(st, c, times, mode)
         IN IF t.outcome = "reject" THEN Ended(Raised(TooManyRequests(t)), ts, st2, "reject")
            ELSE IF t.outcome = "raise" THEN Ended(Raised(Error(t.exc)), ts, st2, "raise")
            ELSE Ended(None, ts, st2, "admit")

\* the try body of create_todo
create_todo_try(current_user, body, ts, st, mode) ==
    LET e == todo_enter(current_user, ts, st, WRITE_PER_MIN, mode)
        c == create_todo_service(ts, current_user.user_id, body)
    IN IF e.result # None THEN e
       ELSE Ended(Returned(201, "Todo created successfully", c.value),
                  c.todos, e.store, e.check)

\* the try body of get_todos: the route reads five keys of the service's
\* reply
get_todos_try(current_user, page, ts, st, mode) ==
    LET e == todo_enter(current_user, ts, st, READ_PER_MIN, mode)
        data == get_todos_serivce(ts, current_user.user_id,
                                  page.page_number, page.page_size)
    IN IF e.result # None THEN e
       ELSE IF {"data", "total_size", "page_number", "page_size", "total_pages"}
                  \subseteq DOMAIN data
       THEN Ended(Returned(200, "Todos retrieved successfully", data), ts, e.store, e.check)
       ELSE Ended(Raised(Error("KeyError")), ts, e.store, e.check)

\* the try body of update_todo
update_todo_try(current_user, args, ts, st, mode) ==
    LET e == todo_enter(current_user, ts, st, WRITE_PER_MIN, mode)
        updated_todo == update_todo_by_todo_id(ts, args.todo_id, current_user.user_id,
                                               args.title, args.description, args.completed)
    IN IF e.result # None THEN e
       ELSE IF ~Truthy(updated_todo.value)
       THEN Ended(Raised(HTTPException(404, Detail("Todo not found", 0))),
                  updated_todo.todos, e.store, e.check)
       ELSE Ended(Returned(200, "Todo updated successfully", updated_todo.value),
                  updated_todo.todos, e.store, e.check)

\* the try body of delete_todo
delete_todo_try(current_user, args, ts, st, mode) ==
    LET e == todo_enter(current_user, ts, st, WRITE_PER_MIN, mode)
        deleted == delete_todo_by_todo_id(ts, args.todo_id, current_user.user_id)
    IN IF e.result # None THEN e
       ELSE IF ~Truthy(deleted.value)
       THEN Ended(Raised(HTTPException(404, Detail("Todo not found", 0))),
                  deleted.todos, e.store, e.check)
       ELSE Ended(Returned(200, "Todo deleted successfully", None),
                  deleted.todos, e.store, e.check)

\* the except clauses of the four todo routes
todo_except(r, detail) == ExceptHTTPExceptionThenException(r, detail)

----------------------------------------------------------------------------
(* Server: lifespan (app/main.py), the health route, MetricsMiddleware *)

\* the lifespan before it is entered: no client, app.state has no redis
\* attribute, FastAPILimiter not initialised
LifespanCreated ==
    [pc |-> "created", exc |-> None, client |-> "none", state_redis |-> "unset",
     limiter |-> "uninit"]

\* an application that is called without its lifespan being run
\* (TestClient(app) outside a with block, tests/test_health.py)
LifespanOff == [LifespanCreated EXCEPT !.pc = "off"]

\* after the yield: client open, limiter initialised, app.state.redis set
LifespanRunning ==
    [pc |-> "running", exc |-> None, client |-> "open", state_redis |-> "set",
     limiter |-> "init"]

\* what await redis.ping() does at startup: it returns, raises the builtin
\* ConnectionError, or raises an exception of another class
PingModes == {"ok", "ConnectionError", "OtherError"}

\* raise RuntimeError("Redis connection failed") from e
RedisConnectionFailed ==
    [Error("RuntimeError") EXCEPT !.detail = Detail("Redis connection failed", 0)]

\* finally: await app.state.redis.close(); await FastAPILimiter.close()
\* with exc the exception in flight, if any; reading an attribute that
\* app.state does not have raises AttributeError, which replaces it
lifespan_finally(l, exc) ==
    IF l.state_redis = "unset"
    THEN [l EXCEPT !.pc = "aborted", !.exc = Error("AttributeError")]
    ELSE [l EXCEPT !.pc = IF exc = None THEN "stopped" ELSE "aborted",
                   !.exc = exc, !.client = "closed", !.limiter = "closed"]

\* the lifespan up to its yield
lifespan_startup(l, ping) ==
    LET l1 == [l EXCEPT !.client = "open"]
    IN IF ping = "ok"
       THEN [l1 EXCEPT !.pc = "running", !.limiter = "init", !.state_redis = "set"]
       ELSE IF ping = "ConnectionError"
       THEN lifespan_finally(l1, RedisConnectionFailed)
       ELSE lifespan_finally(l1, Error(ping))

\* requests reach the application while its lifespan is between startup and
\* shutdown, or when it is called without lifespan
Serving == lifespan.pc \in {"running", "off"}

\* request.app.state.redis if hasattr(request.app.state, "redis") else None
StateRedis(l) ==
    IF l.state_redis = "unset" THEN None ELSE [type |-> "Redis", client |-> l.client]

\* how a probe of the health route ends
ProbeModes == {"ok", "raise"}

\* status_check with a Redis failure that leaves the status as it was
status_check_redis_unreported(db, redis_client, ping) ==
    LET h0 == [status |-> "healthy", service |-> "up and running",
               database |-> "", redis |-> ""]
        h1 == IF db = "ok" THEN [h0 EXCEPT !.database = "connected"]
              ELSE [h0 EXCEPT !.database = "disconnected", !.status = "unhealthy"]
        h2 == IF Truthy(redis_client)
              THEN IF ping = "ok" THEN [h1 EXCEPT !.redis = "connected"]
                   ELSE [h1 EXCEPT !.redis = "disconnected"]
              ELSE [h1 EXCEPT !.redis = "not configured"]
    IN Returned(200, "", h2)

\* status_check: SELECT 1 on the session, ping on the client of app.state
status_check(db, redis_client, ping) ==
    LET h0 == [status |-> "healthy", service |-> "up and running",
               database |-> "", redis |-> ""]
        h1 == IF db = "ok" THEN [h0 EXCEPT !.database = "connected"]
              ELSE [h0 EXCEPT !.database = "disconnected", !.status = "unhealthy"]
        h2 == IF Truthy(redis_client)
              THEN IF ping = "ok" THEN [h1 EXCEPT !.redis = "connected"]
                   ELSE [h1 EXCEPT !.redis = "disconnected", !.status = "unhealthy"]
              ELSE [h1 EXCEPT !.redis = "not configured"]
    IN Returned(200, "", h2)

\* a request inside MetricsMiddleware.dispatch, suspended at call_next
Dispatched == [pc |-> "call_next", method |-> "GET"]

\* how await call_next(request) ends: a response, an Exception of the
\* application below, or the cancellation of the request's task
\* (asyncio.CancelledError, a BaseException)
CallNextModes == {"response", "exception", "cancelled"}

\* the import inside _get_env(), run by every record_request_end
EnvModes == {"ok", "raise"}

\* _in_flight["v"] += 1
record_request_start(v) == v + 1

\* record_request_end: labels (with _get_env()), _safe_add, _safe_record,
\* then _in_flight["v"] -= 1
record_request_end(v, env) ==
    IF env = "raise" THEN [in_flight |-> v, raised |-> TRUE]
    ELSE [in_flight |-> v - 1, raised |-> FALSE]

\* try: response = await call_next(request); status = response.status_code
\* except Exception: status = 500; raise
\* finally: record_request_end(start, request.method, safe_route, status)
\* CancelledError passes the except clause, so status is unbound when the
\* finally clause evaluates the arguments of record_request_end
dispatch_finally(v, outcome, env) ==
    IF outcome = "cancelled"
    THEN [in_flight |-> v, exc |-> Error("UnboundLocalError")]
    ELSE LET e == record_request_end(v, env)
         IN [in_flight |-> e.in_flight,
             exc |-> IF e.raised THEN Error("ImportError")
                     ELSE IF outcome = "exception" THEN Error("Exception")
                     ELSE None]

\* the clients that send register requests at the same time
RaceHosts == {<<"h1">>, <<"h2">>}

\* the frame of a register request: where it is suspended, and its body
NoRegistration == [pc |-> "idle", body |-> None]

\* the server is idle: nothing inside dispatch, the gauge at 0; an
\* initialised limiter is the work of a lifespan that is running
ServerIdle ==
    /\ lifespan = IF redis = "none" THEN LifespanOff ELSE LifespanRunning
    /\ in_flight = 0
    /\ dispatches = EmptyBag
    /\ history = <<>>
    /\ registrations = [h \in RaceHosts |-> NoRegistration]

\* no request of the application has been served
AppIdle ==
    /\ users = <<>>
    /\ todos = <<>>
    /\ response = NoResponse
    /\ built = {}
    /\ ServerIdle

----------------------------------------------------------------------------
(* Actions *)

\* create_metrics(): creates the instruments once
create_metrics ==
    /\ ~metrics_initialized
    /\ metrics_initialized' = TRUE
    /\ tasks' = Reaped(tasks)
    /\ UNCHANGED <<redis, seconds, store, lapsed>>
    /\ UNCHANGED <<appVars, serverVars>>

\* one whole check, from call to return or raise
Check(c, times, modes, sink) ==
    LET t == CallStep(Entered(c, times, seconds), redis)
    IN /\ BagCardinality(tasks) = 1
       /\ WithinBounds(t)
       /\ IF t.pc = "done"
          THEN /\ tasks' = One(t)
               /\ store' = store
          ELSE \E mode \in modes, addRaises \in sink :
               /\ store' = EvalStore(store, t, mode)
               /\ tasks' = One(Resumed(EvalTask(store, t, mode, lapsed),
                                       metrics_initialized, addRaises))
       /\ UNCHANGED <<redis, seconds, metrics_initialized, lapsed>>
       /\ UNCHANGED <<appVars, serverVars>>

\* time passes; lapsed remembers a key whose exhausted window has expired
Tick ==
    /\ Live(store) # {}
    /\ store' = Aged(store)
    /\ LET ex == {k \in Expired(store) : store[k].count > MaxTimes}
       IN IF ex = {} THEN lapsed' = lapsed ELSE lapsed' \in ex
    /\ tasks' = Reaped(tasks)
    /\ UNCHANGED <<redis, seconds, metrics_initialized>>
    /\ UNCHANGED <<appVars, serverVars>>

\* the three steps of a check, for checks that run concurrently
Call(t, c, times) ==
    /\ t.pc = "idle"
    /\ tasks' = Replaced(tasks, t, CallStep(Entered(c, times, seconds), redis))
    /\ UNCHANGED <<redis, seconds, store, metrics_initialized, lapsed>>
    /\ UNCHANGED <<appVars, serverVars>>

Evalsha(t, modes) ==
    /\ t.pc = "sent"
    /\ \E mode \in modes :
         /\ store' = EvalStore(store, t, mode)
         /\ tasks' = Replaced(tasks, t, EvalTask(store, t, mode, lapsed))
    /\ UNCHANGED <<redis, seconds, metrics_initialized, lapsed>>
    /\ UNCHANGED <<appVars, serverVars>>

Resume(t, sink) ==
    /\ t.pc = "replied"
    /\ \E addRaises \in sink :
         tasks' = Replaced(tasks, t, Resumed(t, metrics_initialized, addRaises))
    /\ UNCHANGED <<redis, seconds, store, metrics_initialized, lapsed>>
    /\ UNCHANGED <<appVars, serverVars>>

----------------------------------------------------------------------------
(* Spec: sequential checks against a store within contract, time passing *)

Init ==
    /\ redis = "configured"
    /\ seconds \in 1..MaxSeconds
    /\ store = [k \in StoreKeys |-> Absent]
    /\ tasks = One(Idle)
    /\ metrics_initialized = FALSE
    /\ lapsed = NoKey
    /\ AppIdle

Next ==
    \/ \E c \in TimedCalls, times \in 1..MaxTimes : Check(c, times, NominalModes, {FALSE})
    \/ Tick

Spec == Init /\ [][Next]_vars

----------------------------------------------------------------------------
(* SpecIso: sequential checks of every caller within one window *)

NextIso ==
    \E c \in Calls, times \in 1..MaxTimes : Check(c, times, NominalModes, {FALSE})

SpecIso == Init /\ [][NextIso]_vars

----------------------------------------------------------------------------
(* SpecFault: the store may be absent, fail or answer out of protocol;     *)
(* the instruments may be missing or raise                                 *)

InitFault ==
    /\ redis \in {"none", "configured"}
    /\ seconds \in 1..MaxSeconds
    /\ store = [k \in StoreKeys |-> Absent]
    /\ tasks = One(Idle)
    /\ metrics_initialized = FALSE
    /\ lapsed = NoKey
    /\ AppIdle

NextFault ==
    \/ create_metrics
    \/ \E c \in TimedCalls, times \in 1..MaxTimes : Check(c, times, FaultModes, BOOLEAN)
    \/ Tick

SpecFault == InitFault /\ [][NextFault]_vars

----------------------------------------------------------------------------
(* SpecBurst: times + 5 checks of one key in flight together *)

BurstCall == [kind |-> "user", arg |-> <<"u1">>, service |-> SERVICE]

BurstTimes == BagCardinality(tasks) - 5

InitBurst ==
    /\ redis = "configured"
    /\ seconds \in 1..MaxSeconds
    /\ store = [k \in StoreKeys |-> Absent]
    /\ \E times \in 1..MaxTimes : tasks = [t \in {Idle} |-> times + 5]
    /\ metrics_initialized = FALSE
    /\ lapsed = NoKey
    /\ AppIdle

NextBurst ==
    \/ \E t \in BagToSet(tasks) : Call(t, BurstCall, BurstTimes)
    \/ \E t \in BagToSet(tasks) : Evalsha(t, NominalModes)
    \/ \E t \in BagToSet(tasks) : Resume(t, {FALSE})

SpecBurst == InitBurst /\ [][NextBurst]_vars

----------------------------------------------------------------------------
(* SpecAuth: the user routes, one request at a time, behind their          *)
(* admission checks, against a store within contract                       *)

Usernames == {"alice", "bob"}

Emails == {"a@x.io", "b@x.io"}

Passwords == {"pw1", "pw2"}

\* UserCreateRequest and UserLoginRequest bodies
RegisterBodies == [username : Usernames, email : Emails, password : {"pw1"}]

LoginBodies == [username : Usernames, password : Passwords]

RouteKeys == {Key(c.kind, Identity(c.kind, c.arg), c.service) : c \in RouteCalls}

\* POST /register
register(body, modes) ==
    \E mode \in modes :
        LET t == rate_limiter(store, RegisterCall, WRITE_PER_MIN, mode)
            r == register_try(users, body, t)
        IN /\ WithinBounds(t)
           /\ store' = rate_limiter_store(store, RegisterCall, WRITE_PER_MIN, mode)
           /\ users' = r.users
           /\ response' = Rendered("register", register_except(r.result), t.outcome, body)
           /\ UNCHANGED <<redis, seconds, tasks, metrics_initialized, lapsed, todos, built, serverVars>>

\* POST /login
login(body, modes) ==
    \E mode \in modes :
        LET t == rate_limiter(store, LoginCall, WRITE_PER_MIN, mode)
        IN /\ WithinBounds(t)
           /\ store' = rate_limiter_store(store, LoginCall, WRITE_PER_MIN, mode)
           /\ response' = Rendered("login", login_except(login_try(users, body, t)),
                                   t.outcome, body)
           /\ UNCHANGED <<redis, seconds, tasks, metrics_initialized, lapsed,
                          users, todos, built, serverVars>>

\* a whole window passes with no request: every key of the store expires
WindowElapsed ==
    /\ Live(store) # {}
    /\ store' = [k \in DOMAIN store |-> Absent]
    /\ UNCHANGED <<redis, seconds, tasks, metrics_initialized, lapsed>>
    /\ UNCHANGED <<appVars, serverVars>>

InitAuth ==
    /\ redis = "configured"
    /\ seconds = DefaultSeconds
    /\ store = [k \in RouteKeys |-> Absent]
    /\ tasks = One(Idle)
    /\ metrics_initialized = FALSE
    /\ lapsed = NoKey
    /\ AppIdle

NextAuth ==
    \/ \E body \in RegisterBodies : register(body, NominalModes)
    \/ \E body \in LoginBodies : login(body, NominalModes)
    \/ WindowElapsed

SpecAuth == InitAuth /\ [][NextAuth]_vars

----------------------------------------------------------------------------
(* SpecKey: the keys the two limiters build for their arguments *)

\* the largest number of keys compared with each other
MaxBuilt == 2

KeyKinds == {"user", "ip"}

\* identities: a plain one, the IPv6 loopback "::1", and "::1:auth"
KeyIdentities == {<<"1">>, <<":", ":", "1">>, <<":", ":", "1", ":", "auth">>}

\* the service tags the routes pass
RouteTags == {SERVICE, AUTH_LOGIN, AUTH_REGISTER}

\* the tags a caller of the limiters may pass: those, and "login"
KeyServices == RouteTags \cup {<<"login">>}

\* key = f"{FastAPILimiter.prefix}:{kind}:{identity}:{service}"
build_key(kind, identity, service) ==
    /\ Cardinality(built) < MaxBuilt
    /\ built' = built \cup {[kind |-> kind, identity |-> identity, service |-> service,
                             key |-> Key(kind, identity, service)]}
    /\ UNCHANGED limiterVars
    /\ UNCHANGED <<users, todos, response, serverVars>>

NextKey ==
    \E kind \in KeyKinds, identity \in KeyIdentities, service \in KeyServices :
        build_key(kind, identity, service)

SpecKey == Init /\ [][NextKey]_vars

----------------------------------------------------------------------------
(* SpecTodo: two stored users; the todo functions called directly (as the  *)
(* services, factories and tests call them) and the todo routes entered    *)
(* through get_current_user                                                *)

\* the most rows the todos table is given
MaxTodos == 2

\* the largest page_number and page_size asked for
MaxPage == 2

MaxPageSize == 2

StoredUsers ==
    create_user(create_user(<<>>, "alice", "a@x.io", hash_password("pw1")).users,
                "bob", "b@x.io", hash_password("pw1")).users

\* bearer tokens: of the two stored users' kind, for a user_id that is not
\* stored, without sub, expired, and signed with another key
Tokens ==
    {create_access_token(<<UuidPool[1]>>),
     create_access_token(<<UuidPool[3]>>),
     create_access_token(NoSub),
     [sub |-> <<UuidPool[1]>>, key |-> "SECRET_KEY", expired |-> TRUE],
     [sub |-> <<UuidPool[1]>>, key |-> "another key", expired |-> FALSE]}

\* the tokens the routes are entered with
RouteTokens ==
    {create_access_token(<<UuidPool[1]>>),
     create_access_token(<<UuidPool[2]>>),
     [sub |-> <<UuidPool[1]>>, key |-> "another key", expired |-> FALSE]}

\* TodoCreate bodies
TodoBodies == {[title |-> "a", description |-> None]}

\* todo_ids asked for: those given out so far and the next one, which names
\* no row
TodoIds(ts) == {TodoUuidPool[i] : i \in 1..(Len(ts) + 1)}

\* TodoUpdate bodies with the todo_id of the path
TodoUpdates(ts) ==
    [todo_id : TodoIds(ts), title : {None, Str("b")}, description : {None},
     completed : {None}]

TodoDeletes(ts) == [todo_id : TodoIds(ts)]

Pages == [page_number : 1..MaxPage, page_size : 1..MaxPageSize]

\* what a direct call gave back
Result(function, value, input) ==
    Rendered(function, Returned(0, "", value), "", input)

\* the reply of a route entered with a token: get_current_user's exception,
\* or the route's own reply
Serve(route, token, input, e, detail) ==
    LET current_user == get_current_user(token, users)
    IN /\ IF current_user.raised
          THEN /\ response' = Rendered(route, current_user, "", [token |-> token, args |-> input])
               /\ UNCHANGED <<store, todos>>
          ELSE /\ e.check # "" => store' # store
               /\ store' = e.store
               /\ todos' = e.todos
               /\ response' = Rendered(route, todo_except(e.result, detail), e.check,
                                       [token |-> token, args |-> input])
       /\ UNCHANGED <<redis, seconds, tasks, metrics_initialized, lapsed, users, built, serverVars>>

\* the route's check is issued only while its key is within the bound
RouteWithinBounds(st, token) ==
    LET current_user == get_current_user(token, users)
    IN (~current_user.raised /\ current_user.data.type = "User") =>
           st[Key("user", current_user.data.user_id, SERVICE)].count < MaxCount

\* POST /todo/
create_todo_route(token, body, modes) ==
    \E mode \in modes :
        /\ RouteWithinBounds(store, token)
        /\ Len(todos) < MaxTodos
        /\ Serve("create_todo", token, body,
                 create_todo_try(get_current_user(token, users).data, body,
                                 todos, store, mode),
                 "Error creating todo")

\* GET /todo/
get_todos(token, page, modes) ==
    \E mode \in modes :
        /\ RouteWithinBounds(store, token)
        /\ Serve("get_todos", token, page,
                 get_todos_try(get_current_user(token, users).data, page,
                               todos, store, mode),
                 "Error getting todos")

\* PUT /todo/{todo_id}
update_todo(token, args, modes) ==
    \E mode \in modes :
        /\ RouteWithinBounds(store, token)
        /\ Serve("update_todo", token, args,
                 update_todo_try(get_current_user(token, users).data, args,
                                 todos, store, mode),
                 "Error updating todo")

\* DELETE /todo/{todo_id}
delete_todo(token, args, modes) ==
    \E mode \in modes :
        /\ RouteWithinBounds(store, token)
        /\ Serve("delete_todo", token, args,
                 delete_todo_try(get_current_user(token, users).data, args,
                                 todos, store, mode),
                 "Error deleting todo")

\* get_current_user(token, db) called as a function
call_get_current_user(token) ==
    /\ response' = Rendered("get_current_user", get_current_user(token, users), "", token)
    /\ UNCHANGED limiterVars
    /\ UNCHANGED <<users, todos, built, serverVars>>

\* create_todo_service(user_id, todo_data, db) called as a function
call_create_todo_service(user_id, body) ==
    LET c == create_todo_service(todos, user_id, body)
    IN /\ Len(todos) < MaxTodos
       /\ todos' = c.todos
       /\ response' = Result("create_todo_service", c.value, [user_id |-> user_id])
       /\ UNCHANGED limiterVars
       /\ UNCHANGED <<users, built, serverVars>>

\* the list service called as a function
call_get_todos_serivce(user_id, page) ==
    /\ response' = Result("get_todos_serivce",
                          get_todos_serivce(todos, user_id, page.page_number, page.page_size),
                          [user_id |-> user_id, page_number |-> page.page_number,
                           page_size |-> page.page_size])
    /\ UNCHANGED limiterVars
    /\ UNCHANGED <<users, todos, built, serverVars>>

\* update_todo_by_todo_id(db, todo_id, user_id, ...) called as a function
call_update_todo_by_todo_id(user_id, args) ==
    LET u == update_todo_by_todo_id(todos, args.todo_id, user_id,
                                    args.title, args.description, args.completed)
    IN /\ todos' = u.todos
       /\ response' = Result("update_todo_by_todo_id", u.value,
                             [user_id |-> user_id, args |-> args])
       /\ UNCHANGED limiterVars
       /\ UNCHANGED <<users, built, serverVars>>

\* delete_todo_by_todo_id(db, todo_id, user_id) called as a function
call_delete_todo_by_todo_id(user_id, args) ==
    LET d == delete_todo_by_todo_id(todos, args.todo_id, user_id)
    IN /\ todos' = d.todos
       /\ response' = Result("delete_todo_by_todo_id", d.value,
                             [user_id |-> user_id, args |-> args])
       /\ UNCHANGED limiterVars
       /\ UNCHANGED <<users, built, serverVars>>

InitTodo ==
    /\ redis = "configured"
    /\ seconds = DefaultSeconds
    /\ store = [k \in RouteKeys |-> Absent]
    /\ tasks = One(Idle)
    /\ metrics_initialized = FALSE
    /\ lapsed = NoKey
    /\ users = StoredUsers
    /\ todos = <<>>
    /\ response = NoResponse
    /\ built = {}
    /\ ServerIdle

NextTodo ==
    \/ \E token \in RouteTokens, body \in TodoBodies :
          create_todo_route(token, body, NominalModes)
    \/ \E token \in RouteTokens, page \in Pages : get_todos(token, page, NominalModes)
    \/ \E token \in RouteTokens, args \in TodoUpdates(todos) :
          update_todo(token, args, NominalModes)
    \/ \E token \in RouteTokens, args \in TodoDeletes(todos) :
          delete_todo(token, args, NominalModes)
    \/ \E token \in Tokens : call_get_current_user(token)
    \/ \E user_id \in UserIds, body \in TodoBodies : call_create_todo_service(user_id, body)
    \/ \E user_id \in UserIds, page \in Pages : call_get_todos_serivce(user_id, page)
    \/ \E user_id \in UserIds, args \in TodoUpdates(todos) :
          call_update_todo_by_todo_id(user_id, args)
    \/ \E user_id \in UserIds, args \in TodoDeletes(todos) :
          call_delete_todo_by_todo_id(user_id, args)

SpecTodo == InitTodo /\ [][NextTodo]_vars

----------------------------------------------------------------------------
(* SpecServer: the lifespan of the application, the health route, and      *)
(* requests passing MetricsMiddleware.dispatch concurrently                *)

\* the most requests inside dispatch at once
MaxInFlight == 2
\* dispatch is entered only while the gauge is below this
MaxGauge == 3

\* what a step of the server leaves in response
ServerStep(route, status, exc, input) ==
    [NoResponse EXCEPT !.route = route, !.status = status, !.data = exc,
                       !.input = input]

\* the lifespan from its entry to its yield, or to the exception that
\* leaves it
lifespan_enter(ping) ==
    /\ lifespan.pc = "created"
    /\ lifespan' = lifespan_startup(lifespan, ping)
    /\ redis' = IF lifespan'.limiter = "init" THEN "configured" ELSE redis
    /\ response' = ServerStep("lifespan", lifespan'.pc, lifespan'.exc, [ping |-> ping])
    /\ UNCHANGED <<seconds, store, tasks, metrics_initialized, lapsed>>
    /\ UNCHANGED <<users, todos, built, in_flight, dispatches, history, registrations>>

\* shutdown, once the requests have drained: the lifespan after its yield
lifespan_exit ==
    /\ lifespan.pc = "running"
    /\ dispatches = EmptyBag
    /\ lifespan' = lifespan_finally(lifespan, None)
    /\ response' = ServerStep("lifespan", lifespan'.pc, lifespan'.exc, None)
    /\ UNCHANGED limiterVars
    /\ UNCHANGED <<users, todos, built, in_flight, dispatches, history, registrations>>

\* GET /api/v1/health/
health(db, ping) ==
    /\ Serving
    /\ response' = Rendered("health", status_check(db, StateRedis(lifespan), ping), "",
                            [db |-> db, ping |-> ping, redis |-> StateRedis(lifespan)])
    /\ UNCHANGED limiterVars
    /\ UNCHANGED <<users, todos, built, serverVars>>

\* dispatch up to await call_next(request)
dispatch_enter ==
    /\ Serving
    /\ BagCardinality(dispatches) < MaxInFlight
    /\ in_flight < MaxGauge
    /\ in_flight' = record_request_start(in_flight)
    /\ dispatches' = dispatches (+) One(Dispatched)
    /\ response' = ServerStep("dispatch", "entered", None, None)
    /\ UNCHANGED limiterVars
    /\ UNCHANGED <<users, todos, built, lifespan, history, registrations>>

\* dispatch from the end of call_next to its return or raise
dispatch_leave(f, outcome, env) ==
    /\ f \in BagToSet(dispatches)
    /\ LET d == dispatch_finally(in_flight, outcome, env)
       IN /\ in_flight' = d.in_flight
          /\ response' = ServerStep("dispatch", "left", d.exc,
                                    [outcome |-> outcome, env |-> env])
    /\ dispatches' = dispatches (-) One(f)
    /\ UNCHANGED limiterVars
    /\ UNCHANGED <<users, todos, built, lifespan, history, registrations>>

InitServer ==
    /\ redis = "none"
    /\ seconds = DefaultSeconds
    /\ store = [k \in RouteKeys |-> Absent]
    /\ tasks = One(Idle)
    /\ metrics_initialized = FALSE
    /\ lapsed = NoKey
    /\ users = <<>>
    /\ todos = <<>>
    /\ response = NoResponse
    /\ built = {}
    /\ lifespan \in {LifespanCreated, LifespanOff}
    /\ in_flight = 0
    /\ dispatches = EmptyBag
    /\ history = <<>>
    /\ registrations = [h \in RaceHosts |-> NoRegistration]

NextServer ==
    \/ \E ping \in PingModes : lifespan_enter(ping)
    \/ lifespan_exit
    \/ \E db \in ProbeModes, ping \in ProbeModes : health(db, ping)
    \/ dispatch_enter
    \/ \E f \in BagToSet(dispatches), outcome \in CallNextModes, env \in EnvModes :
          dispatch_leave(f, outcome, env)

SpecServer == InitServer /\ [][NextServer]_vars

----------------------------------------------------------------------------
(* SpecAuthFault: the user routes against a store that may fail or answer  *)
(* out of protocol, with requests cancelled at the await of their check    *)

\* how the round trip of a cancelled request ends for the store: the
\* script ran, or it did not
CancelModes == {"ok", "raise"}

\* a request to a user route whose task is cancelled while the check awaits
\* evalsha: CancelledError passes `except Exception` of the limiter and of
\* the route, and nothing of either runs after it
cancelled(c, modes) ==
    \E mode \in modes :
        LET t == rate_limiter(store, c, WRITE_PER_MIN, mode)
        IN /\ WithinBounds(t)
           /\ store' = rate_limiter_store(store, c, WRITE_PER_MIN, mode)
           /\ response' = ServerStep("cancelled", "error", Error("CancelledError"),
                                     [call |-> c, mode |-> mode])
           /\ UNCHANGED <<redis, seconds, tasks, metrics_initialized, lapsed,
                          users, todos, built, serverVars>>

NextAuthFault ==
    \/ \E body \in RegisterBodies : register(body, FaultModes)
    \/ \E body \in LoginBodies : login(body, FaultModes)
    \/ \E c \in {RegisterCall, LoginCall} : cancelled(c, CancelModes)
    \/ WindowElapsed

SpecAuthFault == InitAuth /\ [][NextAuthFault]_vars

----------------------------------------------------------------------------
(* SpecTodoBody: the todo route functions run with the User that their     *)
(* signature declares for current_user                                     *)

\* the User whose requests run the route functions
BodyUser == get_user_by_user_id(StoredUsers, <<UuidPool[1]>>)

BodyKey == Key("user", BodyUser.user_id, SERVICE)

\* the page the list requests ask for
BodyPages == {[page_number |-> 1, page_size |-> MaxPageSize]}

\* a request of the running window: its class and the verdict of its check
Logged(class, check) == [class |-> class, check |-> check, age |-> 0]

\* the reply of a route function run with current_user
ServeBody(route, class, current_user, input, e, detail) ==
    /\ store[BodyKey].count < MaxCount
    /\ store' = e.store
    /\ todos' = e.todos
    /\ response' = Rendered(route, todo_except(e.result, detail), e.check,
                            [user_id |-> current_user.user_id, args |-> input])
    /\ history' = Append(history, Logged(class, e.check))
    /\ UNCHANGED <<redis, seconds, tasks, metrics_initialized, lapsed, users, built>>
    /\ UNCHANGED <<lifespan, in_flight, dispatches, registrations>>

\* create_todo(body, current_user, db)
body_create_todo(current_user, body, modes) ==
    \E mode \in modes :
        /\ Len(todos) < MaxTodos
        /\ ServeBody("create_todo(current_user)", "write", current_user, body,
                     create_todo_try(current_user, body, todos, store, mode),
                     "Error creating todo")

\* get_todos(page_number, page_size, current_user, db)
body_get_todos(current_user, page, modes) ==
    \E mode \in modes :
        ServeBody("get_todos(current_user)", "read", current_user, page,
                  get_todos_try(current_user, page, todos, store, mode),
                  "Error getting todos")

\* update_todo(body, todo_id, current_user, db)
body_update_todo(current_user, args, modes) ==
    \E mode \in modes :
        ServeBody("update_todo(current_user)", "write", current_user, args,
                  update_todo_try(current_user, args, todos, store, mode),
                  "Error updating todo")

\* the window of every key runs out: the keys expire, the log starts anew
window_expired ==
    /\ Live(store) # {}
    /\ store' = [k \in DOMAIN store |-> Absent]
    /\ history' = <<>>
    /\ UNCHANGED <<redis, seconds, tasks, metrics_initialized, lapsed>>
    /\ UNCHANGED <<appVars, lifespan, in_flight, dispatches, registrations>>

NextTodoBody ==
    \/ \E body \in TodoBodies : body_create_todo(BodyUser, body, NominalModes)
    \/ \E page \in BodyPages : body_get_todos(BodyUser, page, NominalModes)
    \/ \E args \in TodoUpdates(todos) : body_update_todo(BodyUser, args, NominalModes)
    \/ window_expired

SpecTodoBody == InitTodo /\ [][NextTodoBody]_vars

----------------------------------------------------------------------------
(* SpecUpdate: updates of every shape, through the update route as it is   *)
(* served and through the update function called directly                  *)

\* TodoUpdate bodies with each of the three fields given or left out
TodoUpdatesFull(ts) ==
    [todo_id : TodoIds(ts), title : {None, Str("b")},
     description : {None, Str("d")}, completed : {None, Bool(TRUE)}]

NextUpdate ==
    \/ \E user_id \in UserIds, body \in TodoBodies : call_create_todo_service(user_id, body)
    \/ \E token \in RouteTokens, args \in TodoUpdatesFull(todos) :
          update_todo(token, args, NominalModes)
    \/ \E user_id \in UserIds, args \in TodoUpdatesFull(todos) :
          call_update_todo_by_todo_id(user_id, args)

SpecUpdate == InitTodo /\ [][NextUpdate]_vars

----------------------------------------------------------------------------
(* SpecWindow: sequential checks of one caller with one limit while time   *)
(* passes, each admission logged with its key and the time since it was    *)
(* made                                                                    *)

\* the limit of every check
WindowTimes == MaxTimes

\* the caller, and the key of its checks
WindowCalls == {[kind |-> "user", arg |-> <<"u1">>, service |-> SERVICE]}

WindowKeys == {Key(c.kind, Identity(c.kind, c.arg), c.service) : c \in WindowCalls}

\* an admission of a key, just made
Admission(key) == [key |-> key, age |-> 0]

\* the admissions of a key in a log
OfKey(log, key) == SelectSeq(log, LAMBDA e : e.key = key)

\* the log a clock tick leaves: every entry is TickMs older, and an entry is
\* dropped once it is a whole window old
AgedLog(log, window_ms) ==
    SelectSeq([i \in 1..Len(log) |-> [log[i] EXCEPT !.age = @ + TickMs]],
              LAMBDA e : e.age < window_ms)

\* one whole check, as Check; an admission is logged
logged_check(c, times, modes) ==
    \E mode \in modes :
        LET t == rate_limiter(store, c, times, mode)
        IN /\ BagCardinality(tasks) = 1
           /\ WithinBounds(t)
           /\ store' = rate_limiter_store(store, c, times, mode)
           /\ tasks' = One(t)
           /\ history' = IF t.outcome = "admit"
                         THEN Append(history, Admission(t.key))
                         ELSE history
           /\ UNCHANGED <<redis, seconds, metrics_initialized, lapsed>>
           /\ UNCHANGED <<appVars, lifespan, in_flight, dispatches, registrations>>

\* time passes, as in Tick, for the store and for the log
logged_tick ==
    /\ Live(store) # {} \/ history # <<>>
    /\ store' = Aged(store)
    /\ tasks' = Reaped(tasks)
    /\ history' = AgedLog(history, seconds * 1000)
    /\ UNCHANGED <<redis, seconds, metrics_initialized, lapsed>>
    /\ UNCHANGED <<appVars, lifespan, in_flight, dispatches, registrations>>

NextWindow ==
    \/ create_metrics
    \/ \E c \in WindowCalls : logged_check(c, WindowTimes, NominalModes)
    \/ logged_tick

SpecWindow == Init /\ [][NextWindow]_vars

----------------------------------------------------------------------------
(* SpecRace: register requests of two clients, interleaved at the awaits   *)
(* of the route: the admission check, the look-up, the insert              *)

\* the limiter call of the register request of client h
RaceCall(h) == [kind |-> "ip", arg |-> h, service |-> AUTH_REGISTER]

RaceKeys == {Key("ip", h, AUTH_REGISTER) : h \in RaceHosts}

\* bodies that share the username, the email, or neither
RaceBodies ==
    {[username |-> "alice", email |-> "a@x.io", password |-> "pw1"],
     [username |-> "alice", email |-> "b@x.io", password |-> "pw1"],
     [username |-> "bob", email |-> "a@x.io", password |-> "pw1"]}

Suspended(pc, body) == [pc |-> pc, body |-> body]

\* the request ends: its frame is gone, its reply is sent
Replied(h, result, check, body) ==
    /\ registrations' = [registrations EXCEPT ![h] = NoRegistration]
    /\ response' = Rendered("register", register_except(result), check, body)

\* register up to the end of await ip_rate_limiter(...)
register_admission(h, body, modes) ==
    \E mode \in modes :
        LET t == rate_limiter(store, RaceCall(h), WRITE_PER_MIN, mode)
        IN /\ registrations[h].pc = "idle"
           /\ WithinBounds(t)
           /\ store' = rate_limiter_store(store, RaceCall(h), WRITE_PER_MIN, mode)
           /\ IF t.outcome = "admit"
              THEN /\ registrations' = [registrations EXCEPT ![h] = Suspended("lookup", body)]
                   /\ response' = response
              ELSE Replied(h, register_try(users, body, t).result, t.outcome, body)
           /\ UNCHANGED <<redis, seconds, tasks, metrics_initialized, lapsed>>
           /\ UNCHANGED <<users, todos, built, lifespan, in_flight, dispatches, history>>

\* register_user up to the end of await get_user_by_username_or_email(...);
\* None makes the route raise 400
register_lookup(h) ==
    LET body == registrations[h].body
    IN /\ registrations[h].pc = "lookup"
       /\ IF get_user_by_username_or_email(users, body.username, body.email) # None
          THEN Replied(h, Raised(HTTPException(400,
                              Detail("Username or email already exists", 0))),
                       "admit", body)
          ELSE /\ registrations' = [registrations EXCEPT ![h] = Suspended("insert", body)]
               /\ response' = response
       /\ UNCHANGED limiterVars
       /\ UNCHANGED <<users, todos, built, lifespan, in_flight, dispatches, history>>

\* create_user: the commit of the new row, refused by the table when the
\* username or the email has been taken meanwhile; then the reply
register_insert(h) ==
    LET body == registrations[h].body
        c == create_user(users, body.username, body.email, hash_password(body.password))
    IN /\ registrations[h].pc = "insert"
       /\ users' = c.users
       /\ IF c.raised
          THEN Replied(h, Raised(c.exc), "admit", body)
          ELSE Replied(h, Returned(201, "User registered successfully",
                                   UserCreateResponse(c.user)),
                       "admit", body)
       /\ UNCHANGED limiterVars
       /\ UNCHANGED <<todos, built, lifespan, in_flight, dispatches, history>>

InitRace ==
    /\ redis = "configured"
    /\ seconds = DefaultSeconds
    /\ store = [k \in RaceKeys |-> Absent]
    /\ tasks = One(Idle)
    /\ metrics_initialized = FALSE
    /\ lapsed = NoKey
    /\ AppIdle

NextRace ==
    \/ \E h \in RaceHosts, body \in RaceBodies : register_admission(h, body, NominalModes)
    \/ \E h \in RaceHosts : register_lookup(h)
    \/ \E h \in RaceHosts : register_insert(h)
    \/ WindowElapsed

SpecRace == InitRace /\ [][NextRace]_vars

----------------------------------------------------------------------------
(* Properties *)

Done == {t \in BagToSet(tasks) : t.pc = "done"}

CountOutcome(o) ==
    BagCardinality([t \in {x \in Done : x.outcome = o} |-> CopiesIn(t, tasks)])

\* the outcome a check of caller c with limit times would have on store st
WouldBe(st, c, times) ==
    Resumed(EvalTask(st, CallStep(Entered(c, times, seconds), redis), "ok", NoKey),
            TRUE, FALSE).outcome

\* C1: of the checks the store answers for one key within one window, the
\* n-th is admitted (returns, raises nothing) when n <= times and rejected
\* when n > times
C1_FirstTimesAdmitted ==
    \A t \in Done : t.reply.tag = "int" =>
        /\ t.ordinal <= t.times => t.outcome = "admit" /\ t.exc = ""
        /\ t.ordinal > t.times => t.outcome = "reject"

C1_Witness ==
    \E t \in Done : /\ t.reply.tag = "int"
                    /\ t.times = MaxTimes
                    /\ t.ordinal = t.times + 1
                    /\ t.outcome = "reject"

\* C2: of times + 5 checks of one key in flight together, never more than
\* times are admitted, each decides from one store round trip, and once all
\* have returned exactly times were admitted and 5 rejected
C2_BurstAdmitsExactlyTimes ==
    /\ \A t \in BagToSet(tasks) : t.evals <= 1
    /\ \A t \in Done : t.evals = 1
    /\ CountOutcome("admit") <= BurstTimes
    /\ BagToSet(tasks) = Done =>
          /\ CountOutcome("admit") = BurstTimes
          /\ CountOutcome("reject") = 5

C2_Witness ==
    /\ BagToSet(tasks) = Done
    /\ BurstTimes = MaxTimes
    /\ CountOutcome("admit") = MaxTimes
    /\ CountOutcome("reject") = 5

\* C3: a check whose store call raised admits, raises nothing and makes
\* exactly one record call, for the degraded counter with its service; the
\* counter takes that one event when the instrument exists and accepts it
C3_FailOpenDegraded ==
    \A t \in Done : t.reply.tag = "raise" =>
        /\ t.outcome = "admit"
        /\ t.exc = ""
        /\ t.calls = <<[counter |-> "degraded", service |-> t.service]>>
        /\ t.events \in {<<>>, t.calls}
        /\ (metrics_initialized /\ ~t.addRaised) => t.events = t.calls

C3_Witness ==
    \E t \in Done : /\ t.reply.tag = "raise"
                    /\ store[t.key].count > t.times
                    /\ t.outcome = "admit"
                    /\ t.events = t.calls

\* C4: with no store configured every check admits without a store round
\* trip, raises nothing, and the store is never touched
C4_NoStoreAdmits ==
    redis = "none" =>
        /\ \A k \in StoreKeys : store[k] = Absent
        /\ \A t \in BagToSet(tasks) : t.pc \in {"idle", "done"}
        /\ \A t \in Done : t.outcome = "admit" /\ t.exc = "" /\ t.evals = 0

C4_Witness ==
    \E t \in Done : /\ redis = "none"
                    /\ t.kind = "ip"
                    /\ t.times = MaxTimes
                    /\ t.outcome = "admit"

\* C5: a check changes the outcome the next check would have only for its
\* own (kind, identity, service): for every other caller, whatever limit
\* it passes, the outcome is the same before and after the check
C5_KeysIsolated ==
    [][\A t \in BagToSet(tasks') : t.pc = "done" =>
          \A c \in Calls, times \in 1..MaxTimes :
             <<c.kind, Identity(c.kind, c.arg), c.service>> # <<t.kind, t.identity, t.service>>
                => WouldBe(store', c, times) = WouldBe(store, c, times)]_vars

C5_Witness ==
    \E t \in Done : /\ t.outcome = "reject"
                    /\ \E c \in Calls :
                          /\ <<c.kind, Identity(c.kind, c.arg), c.service>>
                                # <<t.kind, t.identity, t.service>>
                          /\ store[Key(c.kind, Identity(c.kind, c.arg), c.service)].count = 1
                          /\ WouldBe(store, c, MaxTimes) = "admit"

\* C6: when the key of an exhausted window expires, the next check of that
\* key is admitted whatever its limit, and every check of that key whose
\* place in the new window is within its limit is admitted
C6_ResetAfterExpiry ==
    /\ [](\A t \in Done : (t.fresh /\ t.reply.tag = "int" /\ t.ordinal <= t.times)
                              => t.outcome = "admit")
    /\ [][\A c \in Calls, times \in 1..MaxTimes :
            LET k == Key(c.kind, Identity(c.kind, c.arg), c.service)
            IN (store[k].count > MaxTimes /\ store'[k].count = 0)
                  => WouldBe(store', c, times) = "admit"]_vars

C6_Witness ==
    \E t \in Done : /\ t.fresh
                    /\ t.times = MaxTimes
                    /\ t.ordinal = t.times
                    /\ t.outcome = "admit"

\* C7: a non-zero integer reply v rejects with the least whole number of
\* seconds covering v milliseconds, which is positive and at most the
\* window; an admitted check has pexpire 0 and no wait
C7_RetryAfterCeil ==
    \A t \in Done : t.reply.tag = "int" =>
        /\ t.reply.v # 0 =>
              /\ t.outcome = "reject"
              /\ t.retry * 1000 >= t.reply.v
              /\ (t.retry - 1) * 1000 < t.reply.v
              /\ 0 < t.retry
              /\ t.retry <= t.seconds
        /\ t.outcome = "admit" => t.pexpire = 0 /\ t.retry = 0

C7_Witness ==
    \E t \in Done : /\ t.outcome = "reject"
                    /\ t.reply.v % 1000 # 0
                    /\ t.seconds = MaxSeconds
                    /\ t.retry = t.seconds

\* C8: every check that made a store round trip makes exactly one record
\* call, for the counter its outcome selects: degraded when the call
\* raised, allowed when the reply was 0, rejected when it was not 0
C8_OneEventPerCheck ==
    \A t \in Done : t.evals = 1 =>
        /\ Len(t.calls) = 1
        /\ t.calls[1].counter = IF t.reply.tag = "raise" THEN "degraded"
                                ELSE IF t.reply.tag = "int" /\ t.reply.v = 0 THEN "allowed"
                                ELSE "rejected"

C10_MalformedReplyFailsOpen ==
    \A t \in Done : t.reply.tag \in {"nil", "junk"} =>
        /\ t.outcome = "admit"
        /\ t.exc = ""
        /\ t.calls = <<[counter |-> "degraded", service |-> t.service]>>

\* C11: on every rate-limited route a request whose admission check rejects
\* is answered 429 with the 'Try again in N seconds' detail, and with no
\* other status
C11_RejectionAnswered429 ==
    response.check = "reject" =>
        /\ response.status_code = 429
        /\ response.message.text = "Rate limit exceeded. Try again in N seconds."
        /\ response.message.n > 0

C13_FourOutcomes ==
    \A t \in Done :
        /\ t.outcome \in {"admit", "reject"}
        /\ t.evals = 0 => t.outcome = "admit"
        /\ t.reply.tag = "raise" => t.outcome = "admit"
        /\ (t.reply.tag = "int" /\ t.reply.v = 0) => t.outcome = "admit"
        /\ (t.evals = 1 /\ t.reply.tag # "raise"
              /\ ~(t.reply.tag = "int" /\ t.reply.v = 0)) => t.outcome = "reject"

\* the step is a request served by the route: its check counted the request
Served(call) ==
    LET k == Key(call.kind, Identity(call.kind, call.arg), call.service)
    IN store'[k].count = store[k].count + 1

\* C14: a login that its admission check lets through is answered 200 with
\* a bearer access token exactly when the username is stored and the
\* password verifies against the stored hash; otherwise it is answered 401
\* and carries no token
C14_LoginAnswers ==
    [][(Served(LoginCall) /\ response'.check = "admit") =>
          LET body == response'.input
              verified == \E i \in 1..Len(users) :
                             /\ users[i].username = body.username
                             /\ verify_password(body.password, users[i].hashed_password)
          IN IF verified
             THEN /\ response'.status_code = 200
                  /\ response'.data # None
                  /\ response'.data.token_type = "bearer"
             ELSE /\ response'.status_code = 401
                  /\ response'.data = None]_vars

\* C15: a registration whose username or email is in use stores nothing and
\* is never answered 201: register_user returns None and the route answers
\* 400 (a request the admission check turned away never reaches
\* register_user); and no two stored users share a username or an email
C15_DuplicateRegistrationRejected ==
    /\ [](\A i, j \in 1..Len(users) :
             i # j => /\ users[i].username # users[j].username
                      /\ users[i].email # users[j].email)
    /\ [][Served(RegisterCall) =>
            LET body == response'.input
                taken == \E i \in 1..Len(users) :
                            \/ users[i].username = body.username
                            \/ users[i].email = body.email
            IN taken =>
                 /\ users' = users
                 /\ response'.status_code # 201
                 /\ response'.check = "admit" =>
                       /\ register_user(users, body).value = None
                       /\ response'.status_code = 400
                       /\ response'.status = "error"]_vars

C15_Witness ==
    /\ response.route = "register"
    /\ response.status_code = 400
    /\ Len(users) = 2
    /\ \E i \in 1..Len(users) :
          /\ users[i].email = response.input.email
          /\ users[i].username # response.input.username

\* C16: get_current_user returns the stored user whose user_id is the
\* token's sub when the token is valid and that user is stored; it raises
\* 401 when the token is invalid or expired, has no sub, or names a
\* user_id that is not stored
C16_CurrentUserOrUnauthorized ==
    response.route = "get_current_user" =>
        LET token == response.input
            valid == token.key = "SECRET_KEY" /\ ~token.expired
            stored == {i \in 1..Len(users) : users[i].user_id = token.sub}
        IN IF valid /\ token.sub # NoSub /\ stored # {}
           THEN /\ response.status = "success"
                /\ \E i \in stored : response.data = users[i]
           ELSE /\ response.status = "error"
                /\ response.status_code = 401

\* the rows with this todo_id that belong to someone other than user_id
OthersRows(ts, todo_id, user_id) ==
    {i \in 1..Len(ts) : ts[i].todo_id = todo_id /\ ts[i].user_id # user_id}

\* the token is one that login issues for a stored user
OfStoredUser(token) ==
    /\ decode_access_token(token) # None
    /\ get_user_by_user_id(users, token.sub) # None

\* C17: a list request answered with data carries only todos whose user_id
\* is the caller's, and an update or delete request of a stored user
\* addressed to another user's todo_id is answered 404 and changes no row
C17_UsersIsolated ==
    [][/\ (response'.route = "get_todos" /\ response'.status = "success") =>
            \A i \in 1..Len(response'.data.data) :
                response'.data.data[i].user_id = response'.input.token.sub
       /\ (/\ response'.route \in {"update_todo", "delete_todo"}
           /\ OfStoredUser(response'.input.token)
           /\ OthersRows(todos, response'.input.args.todo_id,
                         response'.input.token.sub) # {}) =>
              /\ response'.status_code = 404
              /\ todos' = todos]_vars

\* the rows with this todo_id that belong to user_id
OwnRows(ts, todo_id, user_id) ==
    {i \in 1..Len(ts) : ts[i].todo_id = todo_id /\ ts[i].user_id = user_id}

\* C18: a delete request of a stored user is answered 200 'Todo deleted
\* successfully' exactly when that user has a todo with that todo_id, and
\* then the row is kept with is_deleted set; otherwise it is answered 404
\* and no row changes
C18_DeleteAnswers ==
    [][(response'.route = "delete_todo" /\ OfStoredUser(response'.input.token)) =>
          LET own == OwnRows(todos, response'.input.args.todo_id,
                             response'.input.token.sub)
          IN IF own # {}
             THEN /\ response'.status_code = 200
                  /\ response'.message.text = "Todo deleted successfully"
                  /\ Len(todos') = Len(todos)
                  /\ \A i \in own : todos'[i].is_deleted
             ELSE /\ response'.status_code = 404
                  /\ todos' = todos]_vars

\* C19: no list, by the service or by the route, returns in its data a todo
\* whose row has is_deleted set
C19_DeletedNotListed ==
    [][(response'.route \in {"get_todos_serivce", "get_todos"}
          /\ response'.status = "success") =>
          \A i \in 1..Len(response'.data.data), j \in 1..Len(todos) :
              todos[j].todo_id = response'.data.data[i].todo_id => ~todos[j].is_deleted]_vars

Max(a, b) == IF a > b THEN a ELSE b

\* C20: for a user with N todos, page_number p and page_size s, the list
\* service returns the min(s, max(0, N - (p-1)*s)) todos that follow the
\* first (p-1)*s, total_size N, page_number p, page_size s and
\* total_pages ceil(N / s)
C20_Pagination ==
    [][response'.route = "get_todos_serivce" =>
          LET in == response'.input
              rows == OfUser(todos, in.user_id)
              N == Len(rows)
              offset == (in.page_number - 1) * in.page_size
              out == response'.data
          IN /\ Len(out.data) = Min(in.page_size, Max(0, N - offset))
             /\ \A i \in 1..Len(out.data) : out.data[i].todo_id = rows[offset + i].todo_id
             /\ out.total_size = N
             /\ {"page_number", "page_size", "total_pages"} \subseteq DOMAIN out
             /\ out.page_number = in.page_number
             /\ out.page_size = in.page_size
             /\ out.total_pages = CeilDiv(N, in.page_size)]_vars

\* C21: the health route always answers 200 without raising; it reports
\* 'healthy' exactly when the database probe succeeded and the Redis probe
\* succeeded or no Redis client is configured; a failed probe gives
\* 'unhealthy' with that component 'disconnected'
C21_HealthAnswers ==
    response.route = "health" =>
        LET h == response.data
            i == response.input
            redisFine == ~Truthy(i.redis) \/ i.ping = "ok"
        IN /\ response.status_code = 200
           /\ response.status = "success"
           /\ h.status \in {"healthy", "unhealthy"}
           /\ h.status = "healthy" <=> (i.db = "ok" /\ redisFine)
           /\ i.db = "raise" => h.database = "disconnected"
           /\ i.db = "ok" => h.database = "connected"
           /\ ~redisFine => h.redis = "disconnected"
           /\ ~Truthy(i.redis) => h.redis = "not configured"

C21_Witness ==
    /\ response.route = "health"
    /\ response.input.db = "ok"
    /\ Truthy(response.input.redis)
    /\ response.input.ping = "raise"
    /\ response.data.status = "unhealthy"
    /\ response.data.redis = "disconnected"
    /\ response.data.database = "connected"

\* C29: the in-flight gauge always equals the number of requests that have
\* entered MetricsMiddleware.dispatch and not yet left it (so it is never
\* negative and is 0 when no request is inside), on every exit path
C29_GaugeCountsDispatches ==
    /\ in_flight = BagCardinality(dispatches)
    /\ in_flight >= 0

\* C30: a startup whose Redis ping fails aborts with RuntimeError('Redis
\* connection failed'), the limiter not initialised and nothing served;
\* after a successful startup, shutdown closes the client and the limiter
C30_StartupAbortsShutdownCloses ==
    /\ (lifespan.pc = "aborted") =>
          /\ lifespan.exc = RedisConnectionFailed
          /\ lifespan.limiter = "uninit"
          /\ redis = "none"
          /\ in_flight = 0
    /\ (lifespan.pc = "stopped") =>
          /\ lifespan.client = "closed"
          /\ lifespan.limiter = "closed"

\* the routes that start with an admission check
RateLimited ==
    {"register", "login", "create_todo", "get_todos", "update_todo", "delete_todo"}

\* C22: on a rate-limited route the protected operation runs only after
\* the admission check has admitted the request: a request whose check
\* rejected it (or failed) changes no table and gets no success body, and
\* a table changes or a success body is sent only for an admitted request
C22_CheckBeforeOperation ==
    [][response'.route \in RateLimited =>
          /\ response'.check \in {"reject", "raise"} =>
                /\ users' = users
                /\ todos' = todos
                /\ response'.status = "error"
                /\ response'.data = None
          /\ (users' # users \/ todos' # todos \/ response'.status = "success") =>
                response'.check = "admit"]_vars

C22_Witness ==
    /\ response.route = "register"
    /\ response.check = "reject"
    /\ response.status_code = 429
    /\ Len(users) = 1
    /\ \A i \in 1..Len(users) : users[i].username # response.input.username

\* C23: the expiry of a key is set by the first increment of a window, to
\* window_seconds * 1000 ms; a later check of the window leaves it as it
\* is, and it only runs down until the key expires; so a live key expires
\* within the window, and a rejected check is told to wait what is left of
\* the window that the key's first request opened, at most window_seconds
C23_ExpirySetOnce ==
    /\ [](\A k \in Live(store) : 0 < store[k].ttl /\ store[k].ttl <= seconds * 1000)
    /\ [](\A t \in Done : t.outcome = "reject" =>
              /\ t.pexpire = store[t.key].ttl
              /\ t.retry <= seconds)
    /\ [][\A k \in DOMAIN store :
            /\ (store[k].count = 0 /\ store'[k].count > 0)
                  => store'[k].ttl = seconds * 1000
            /\ (store[k].count > 0 /\ store'[k].count > store[k].count)
                  => store'[k].ttl = store[k].ttl
            /\ (store[k].count > 0 /\ store'[k].count > 0)
                  => store'[k].ttl <= store[k].ttl]_vars

C23_Witness ==
    \E t \in Done : /\ t.outcome = "reject"
                    /\ t.ordinal >= 3
                    /\ t.pexpire < t.milliseconds
                    /\ t.pexpire = store[t.key].ttl

\* C24: within a window no request makes a counter smaller, whether its
\* check rejected it, failed open or failed, its operation raised, or it
\* was cancelled; a counter gets smaller only when its key expires, which
\* removes it
C24_CounterNeverDecreases ==
    [][\A k \in DOMAIN store :
          /\ store'[k].count < store[k].count =>
                /\ store'[k] = Absent
                /\ users' = users
                /\ response' = response
          /\ (users' # users \/ response' # response) =>
                store'[k].count >= store[k].count]_vars

C24_Witness ==
    /\ response.route = "cancelled"
    /\ \E k \in DOMAIN store : store[k].count > WRITE_PER_MIN + 1
    /\ Len(users) = 1

\* the row an update of the three fields must leave in place of row r
UpdatedAsAsked(r, args) ==
    [r EXCEPT !.title = IF args.title = None THEN r.title ELSE args.title.s,
              !.description = IF args.description = None THEN r.description
                              ELSE args.description,
              !.completed = IF args.completed = None THEN r.completed
                            ELSE args.completed.b]

\* the table after user_id's update args of table ts
TableAsAsked(ts, user_id, args) ==
    [i \in 1..Len(ts) |->
        IF i \in OwnRows(ts, args.todo_id, user_id)
        THEN UpdatedAsAsked(ts[i], args) ELSE ts[i]]

\* C25: an update changes exactly the supplied non-null fields of the
\* caller's todo with that todo_id and no other field or row; an update
\* request naming a todo_id the caller has no todo for changes nothing and
\* is answered 404, one naming a todo of the caller is answered 200
C25_UpdateChangesAskedFields ==
    [][/\ response'.route = "update_todo_by_todo_id" =>
             todos' = TableAsAsked(todos, response'.input.user_id, response'.input.args)
       /\ (response'.route = "update_todo" /\ OfStoredUser(response'.input.token)) =>
             LET user_id == response'.input.token.sub
                 args == response'.input.args
             IN /\ todos' = TableAsAsked(todos, user_id, args)
                /\ response'.status_code =
                      IF OwnRows(todos, args.todo_id, user_id) = {} THEN 404 ELSE 200]_vars

\* the requests of one class in a log
OfClass(log, class) == SelectSeq(log, LAMBDA e : e.class = class)

\* C26: for one user the list requests and the write requests to the todo
\* routes are limited independently: a list request is admitted whenever
\* fewer than READ_PER_MIN list requests were made before it in the window,
\* a write request whenever fewer than WRITE_PER_MIN write requests were,
\* whatever the count of the other class
C26_ReadWriteIndependent ==
    [][Len(history') = Len(history) + 1 =>
          LET e == history'[Len(history')]
          IN /\ (e.class = "read" /\ Len(OfClass(history, "read")) < READ_PER_MIN)
                   => e.check = "admit"
             /\ (e.class = "write" /\ Len(OfClass(history, "write")) < WRITE_PER_MIN)
                   => e.check = "admit"]_vars

\* the admissions of the window of the store that is running: those made
\* since the key's first increment
InStoreWindow(log, k) ==
    SelectSeq(log, LAMBDA e : e.age <= seconds * 1000 - store[k].ttl)

Taken(us, body) ==
    \E i \in 1..Len(us) : us[i].username = body.username \/ us[i].email = body.email

\* C28: register requests with the same username or email that run
\* concurrently create at most one user, and a request that finds the
\* username or the email taken when it ends is answered 400
C28_ConcurrentRegisterOneUser400 ==
    /\ [](UsersUnique(users))
    /\ [][\A h \in RaceHosts :
            (/\ registrations[h].pc \in {"lookup", "insert"}
             /\ registrations'[h].pc = "idle"
             /\ Taken(users, registrations[h].body))
                => /\ users' = users
                   /\ response'.status_code = 400]_vars
====
